---------------------------- MODULE Spec2Model ----------------------------
(***************************************************************************)
(* Model of the project-intelligence / TDD-protocol tooling:               *)
(*   scripts/core/project-intelligence.ts   (class ProjectIntelligence)    *)
(*   unnamed/part_002                       (class TDDProtocol)            *)
(*   scripts/core/ultimate-project-discovery.sh   (the discovery run)      *)
(*   scripts/install.sh    (the installer and validate-before-create.sh)   *)
(*                                                                         *)
(* Strings are TLA+ strings; Len, SubSeq and \o act on them character by   *)
(* character, so substring tests and regular expressions are computed on   *)
(* the characters as the code computes them.                               *)
(***************************************************************************)
EXTENDS Integers, Sequences, FiniteSets, TLC

VARIABLES
    dirs,      \* the directories of the project tree, as `find .` prints them
    files,     \* file path -> content, the regular files of the project tree
    pi,        \* ProjectIntelligence.projectMap of the live instance (or NoInstance)
    scanned,   \* the locals componentDirs / docsDirs / libDirs of mapStructure
    config,    \* TDDProtocol.config of the live instance
    pc,        \* position inside createFeature: idle, test, impl, heal
    cur,       \* the FeatureSpec passed to the last createFeature call
    result,    \* what the last createFeature call reported
    calls,     \* number of createFeature calls started
    runs,      \* number of TDDProtocol instances constructed
    fn,        \* the last helper applied in isolation: its name, input, output
    sh         \* the shell script being run: its arguments, position, exit status

vars == <<dirs, files, pi, scanned, config, pc, cur, result, calls, runs, fn, sh>>
sysVars == <<dirs, files, pi, scanned, config, pc, cur, result, calls, runs, sh>>
tddVars == <<pi, scanned, config, pc, cur, result, calls, runs>>

-----------------------------------------------------------------------------
(* Bounds                                                                  *)

MaxDirs == 3     \* leaves of the directory universe present in one tree
MaxFiles == 3    \* length of a file list handed to detectNamingPattern
MaxCalls == 2    \* createFeature calls per model run
MaxRuns == 2     \* TDDProtocol instances constructed per model run
MaxMissing == 2  \* directories and files a tree lacks of the complete project

-----------------------------------------------------------------------------
(* Characters and strings                                                  *)

\* The characters that occur in the model's paths and names, in code-unit order.
Ascii == "-./0123456789ABCDEFGHIJKLMNOPQRSTUVWXYZ_abcdefghijklmnopqrstuvwxyz"
UpperAlpha == "ABCDEFGHIJKLMNOPQRSTUVWXYZ"
LowerAlpha == "abcdefghijklmnopqrstuvwxyz"
Digits == "0123456789"

CharAt(s, i) == SubSeq(s, i, i)

CharsOf(class) == {CharAt(class, i) : i \in 1..Len(class)}

UpperChars == CharsOf(UpperAlpha)
LowerChars == CharsOf(LowerAlpha)
DigitChars == CharsOf(Digits)

\* The code unit order of the characters.
CodeOf == [c \in CharsOf(Ascii) |-> CHOOSE i \in 1..Len(Ascii) : CharAt(Ascii, i) = c]

\* The lowercase form of each character.
LowerOf ==
    [c \in CharsOf(Ascii) |->
        IF c \in UpperChars
        THEN CharAt(LowerAlpha, CHOOSE i \in 1..Len(UpperAlpha) : CharAt(UpperAlpha, i) = c)
        ELSE c]

\* String.prototype.includes
includes(s, sub) ==
    \E i \in 1..(Len(s) - Len(sub) + 1) : SubSeq(s, i, i + Len(sub) - 1) = sub

startsWith(s, pre) == Len(pre) <= Len(s) /\ SubSeq(s, 1, Len(pre)) = pre

endsWith(s, suf) ==
    Len(suf) <= Len(s) /\ SubSeq(s, Len(s) - Len(suf) + 1, Len(s)) = suf

\* String.prototype.toLowerCase
RECURSIVE toLowerCase(_)
toLowerCase(s) ==
    IF Len(s) = 0 THEN ""
    ELSE LowerOf[CharAt(s, 1)] \o toLowerCase(SubSeq(s, 2, Len(s)))

\* Position of the last "/" of s at or before i, 0 when there is none.
RECURSIVE LastSlashFrom(_, _)
LastSlashFrom(s, i) ==
    IF i = 0 THEN 0
    ELSE IF CharAt(s, i) = "/" THEN i
    ELSE LastSlashFrom(s, i - 1)

LastSlash(s) == LastSlashFrom(s, Len(s))

\* filePath.split('/').pop(): the final path segment.
Basename(p) == SubSeq(p, LastSlash(p) + 1, Len(p))

\* path.dirname of a relative path with at least one "/".
Dirname(p) == SubSeq(p, 1, LastSlash(p) - 1)

\* Comparison of strings by code units, as Array.prototype.sort orders them.
RECURSIVE LexLess(_, _)
LexLess(a, b) ==
    IF Len(b) = 0 THEN FALSE
    ELSE IF Len(a) = 0 THEN TRUE
    ELSE LET ca == CodeOf[CharAt(a, 1)]
             cb == CodeOf[CharAt(b, 1)]
         IN IF ca # cb THEN ca < cb
            ELSE LexLess(SubSeq(a, 2, Len(a)), SubSeq(b, 2, Len(b)))

Range(seq) == {seq[i] : i \in 1..Len(seq)}

\* The sequences that list every element of the finite set S exactly once.
RECURSIVE Perms(_)
Perms(S) ==
    IF S = {} THEN {<<>>}
    ELSE UNION {{<<x>> \o q : q \in Perms(S \ {x})} : x \in S}

-----------------------------------------------------------------------------
(* Paths and the directory tree                                            *)

\* The value of a JavaScript expression that evaluates to undefined.
Undefined == "undefined"

SlashesOf(p) == {i \in 1..Len(p) : CharAt(p, i) = "/"}

\* The directories above p, the root "." excluded.
Ancestors(p) == {SubSeq(p, 1, i - 1) : i \in {j \in SlashesOf(p) : j > 2}}

\* mkdir -p: the directory and every directory above it.
WithAncestors(p) == {p} \cup Ancestors(p)

\* p is d or lies below d.
Under(p, d) == p = d \/ startsWith(p, d \o "/")

\* The leaf directories a project tree of the model is built from.
DirLeaves ==
    { "./src/components", "./components", "./lib/components",
      "./src/lib", "./docs", "./legit/docs", "./.git/refs/heads/docs",
      "./node_modules/pkg/lib", "./test" }

\* The trees of up to MaxDirs of the given leaves, with the directories
\* above them.
TreesOf(leaves) ==
    { UNION {WithAncestors(l) : l \in L} :
        L \in {M \in SUBSET leaves : Cardinality(M) <= MaxDirs} }

\* The trees the scanners are applied to in isolation.
Trees == TreesOf(DirLeaves)

\* The trees the tool is run on.
ProjectLeaves == {"./src/components", "./components", "./lib/components", "./test"}
ProjectTrees == TreesOf(ProjectLeaves)

\* l lists paths in an order a depth-first walk of the tree can produce: a
\* directory comes before what lies below it, and the paths below any one
\* directory are adjacent.  readdir fixes no order among siblings.
DfsOrder(l) ==
    /\ \A i, j \in 1..Len(l) : i < j => ~Under(l[i], l[j])
    /\ \A i, j, k \in 1..Len(l) :
          (i < j /\ j < k) =>
              \A d \in WithAncestors(l[i]) : Under(l[k], d) => Under(l[j], d)

\* fnmatch as find -name / -path use it, for the pattern shapes the scripts
\* pass: a literal name, "*<suffix>" and "*<text>*" ("*" matches any run of
\* characters, "/" and a leading "." included).
GlobMatch(s, pat) ==
    IF CharAt(pat, 1) # "*" THEN s = pat
    ELSE IF CharAt(pat, Len(pat)) # "*" THEN endsWith(s, SubSeq(pat, 2, Len(pat)))
    ELSE includes(s, SubSeq(pat, 2, Len(pat) - 1))

\* grep -v node_modules: the lines that do not contain the fixed text.
GrepVNodeModules(lines) == {p \in lines : ~includes(p, "node_modules")}

\* grep -v .git: the pattern is a regular expression, "." is any character.
MatchesDotGit(p) == \E i \in 1..(Len(p) - 3) : SubSeq(p, i + 1, i + 3) = "git"

GrepVDotGit(lines) == {p \in lines : ~MatchesDotGit(p)}

\* find . -name "<name>" -type d
FindDirsNamed(tree, name) == {p \in tree : GlobMatch(Basename(p), name)}

\* The orders in which find can print the set of paths S.
FindOrders(S) == {l \in Perms(S) : DfsOrder(l)}

\* findDirectories: the lines find prints, node_modules lines removed, in
\* find's order; [] when the pipeline prints nothing (grep exits 1, execSync
\* throws, the catch returns []).
findDirectories(tree, name) == FindOrders(GrepVNodeModules(FindDirsNamed(tree, name)))

\* check_duplicates of validate-before-create.sh, type "directory".
installCheckDuplicates(tree, name) ==
    FindOrders(GrepVDotGit(GrepVNodeModules(FindDirsNamed(tree, name))))

\* check_duplicates of the discovery script, one find per directory role.
discoveryCheckDuplicates(tree, name) ==
    FindOrders(GrepVNodeModules(FindDirsNamed(tree, name)))

-----------------------------------------------------------------------------
(* Duplicate detection                                                     *)

\* The directory roles mapStructure scans for, with the preferred substring
\* it passes for each.
Roles == {"components", "docs", "lib"}
Preferred == [components |-> "src/components", docs |-> "docs", lib |-> "src/lib"]

\* Array.prototype.find: the first element the predicate holds of.
RECURSIVE FindIncluding(_, _)
FindIncluding(locations, preferred) ==
    IF Len(locations) = 0 THEN Undefined
    ELSE IF includes(Head(locations), preferred) THEN Head(locations)
    ELSE FindIncluding(Tail(locations), preferred)

\* selectCanonicalLocation with the arguments of includes exchanged: it looks
\* for a location contained in the preferred substring.
selectCanonicalLocation_Exchanged(locations, preferred) ==
    LET hits == {i \in 1..Len(locations) : includes(preferred, locations[i])}
    IN IF hits # {} THEN locations[CHOOSE i \in hits : \A j \in hits : i <= j]
       ELSE IF Len(locations) > 0 THEN locations[1] ELSE Undefined

\* selectCanonicalLocation that keeps state between calls: once it has been
\* applied, the next application answers with the last location.
selectCanonicalLocation_Remembering(locations, preferred) ==
    LET found == FindIncluding(locations, preferred)
    IN IF fn.op # "none" /\ Len(locations) > 0 THEN locations[Len(locations)]
       ELSE IF found # Undefined THEN found
       ELSE IF Len(locations) > 0 THEN locations[1] ELSE Undefined

selectCanonicalLocation(locations, preferred) ==
    LET found == FindIncluding(locations, preferred)
    IN IF found # Undefined THEN found
       ELSE IF Len(locations) > 0 THEN locations[1] ELSE Undefined

\* dirs.filter(dir => dir !== canonical): the violations of a role.
forbiddenOf(locations, canonical) == SelectSeq(locations, LAMBDA dir : dir # canonical)

-----------------------------------------------------------------------------
(* Naming conventions                                                      *)

IsUpper(c) == c \in UpperChars
IsLower(c) == c \in LowerChars
IsDigit(c) == c \in DigitChars

\* /[A-Z][a-z]/.test(file): an uppercase letter directly followed by a
\* lowercase one, anywhere in the string.
HasUpperThenLower(file) ==
    \E i \in 1..(Len(file) - 1) : IsUpper(CharAt(file, i)) /\ IsLower(CharAt(file, i + 1))

detectNamingPattern(fileList) ==
    LET pascalCaseCount == Len(SelectSeq(fileList, HasUpperThenLower))
    IN IF 2 * pascalCaseCount > Len(fileList) THEN "PascalCase" ELSE "camelCase"

matchesPattern(name, pattern) ==
    CASE pattern = "PascalCase" ->
            /\ Len(name) > 0
            /\ IsUpper(CharAt(name, 1))
            /\ \A i \in 2..Len(name) :
                  LET c == CharAt(name, i) IN IsUpper(c) \/ IsLower(c) \/ IsDigit(c)
      [] pattern = "camelCase" ->
            /\ Len(name) > 0
            /\ IsLower(CharAt(name, 1))
            /\ \A i \in 2..Len(name) :
                  LET c == CharAt(name, i) IN IsUpper(c) \/ IsLower(c) \/ IsDigit(c)
      [] pattern = "kebab-case" ->
            /\ Len(name) > 0
            /\ IsLower(CharAt(name, 1))
            /\ \A i \in 2..Len(name) :
                  LET c == CharAt(name, i) IN IsLower(c) \/ IsDigit(c) \/ c = "-"
      [] OTHER -> TRUE

\* fileName.replace(/\.(ts|tsx|js|jsx)$/, '') of the final path segment.
extractFeatureName(filePath) ==
    LET fileName == Basename(filePath)
        cut(n) == SubSeq(fileName, 1, Len(fileName) - n)
    IN IF endsWith(fileName, ".tsx") \/ endsWith(fileName, ".jsx") THEN cut(4)
       ELSE IF endsWith(fileName, ".ts") \/ endsWith(fileName, ".js") THEN cut(3)
       ELSE fileName

\* findFiles over the entries of a tree: find . [-path "*/<directory>/*"]
\* -name "<pattern>" | grep -v node_modules.  Only the set of lines is used by
\* the callers modelled here (counts and membership), so the order find prints
\* them in is not kept.
findFiles(entries, pattern, directory) ==
    GrepVNodeModules(
        {p \in entries :
            /\ directory # "" => GlobMatch(p, "*/" \o directory \o "/*")
            /\ GlobMatch(Basename(p), pattern)})

\* Some listing of the finite set S, for the operators that take a list and
\* use only its elements and their number.
RECURSIVE SomeSeq(_)
SomeSeq(S) ==
    IF S = {} THEN <<>>
    ELSE LET x == CHOOSE y \in S : TRUE IN <<x>> \o SomeSeq(S \ {x})

detectTestPattern(fileSet) ==
    IF \E f \in fileSet : includes(f, ".test.") THEN ".test.*"
    ELSE IF \E f \in fileSet : includes(f, ".spec.") THEN ".spec.*"
    ELSE ".test.*"

\* The defaults detectPatterns starts from.
DefaultPatterns ==
    [components |-> "PascalCase", utilities |-> "camelCase",
     tests |-> ".test.tsx", apiRoutes |-> "kebab-case"]

\* detectPatterns without the length guard on the component files.
detectPatterns_Unguarded(entries) ==
    LET componentFiles == findFiles(entries, "*.tsx", "components")
        testFiles == findFiles(entries, "*.test.*", "")
        p1 == [DefaultPatterns EXCEPT
                  !.components = detectNamingPattern(SomeSeq(componentFiles))]
    IN IF Cardinality(testFiles) > 0
       THEN [p1 EXCEPT !.tests = detectTestPattern(testFiles)]
       ELSE p1

detectPatterns(entries) ==
    LET componentFiles == findFiles(entries, "*.tsx", "components")
        testFiles == findFiles(entries, "*.test.*", "")
        p1 == IF Cardinality(componentFiles) > 0
              THEN [DefaultPatterns EXCEPT
                       !.components = detectNamingPattern(SomeSeq(componentFiles))]
              ELSE DefaultPatterns
    IN IF Cardinality(testFiles) > 0
       THEN [p1 EXCEPT !.tests = detectTestPattern(testFiles)]
       ELSE p1

-----------------------------------------------------------------------------
(* ProjectIntelligence: analysis of the tree                               *)

\* record[key] || fallback, for a record that may lack the key.
GetOr(record, key, fallback) == IF key \in DOMAIN record THEN record[key] ELSE fallback

\* mapStructure without the filter on the forbidden locations: every
\* duplicated directory is pushed, the canonical one included.
mapStructure_Unfiltered(componentDirs, docsDirs, libDirs) ==
    LET found == [components |-> componentDirs, docs |-> docsDirs, lib |-> libDirs]
        duplicated == {r \in Roles : Len(found[r]) > 1}
        all(r) == IF r \in duplicated THEN found[r] ELSE <<>>
    IN [canonicalLocations |->
            [r \in duplicated |-> selectCanonicalLocation(found[r], Preferred[r])],
        forbiddenLocations |-> all("components") \o all("docs") \o all("lib"),
        duplicateStructures |-> all("components") \o all("docs") \o all("lib")]

\* mapStructure, given what the three findDirectories calls returned.
mapStructure(componentDirs, docsDirs, libDirs) ==
    LET found == [components |-> componentDirs, docs |-> docsDirs, lib |-> libDirs]
        duplicated == {r \in Roles : Len(found[r]) > 1}
        canonicalLocations ==
            [r \in duplicated |-> selectCanonicalLocation(found[r], Preferred[r])]
        forbidden(r) ==
            IF r \in duplicated
            THEN SelectSeq(found[r], LAMBDA dir : dir # canonicalLocations[r])
            ELSE <<>>
        duplicate(r) == IF r \in duplicated THEN found[r] ELSE <<>>
    IN [canonicalLocations |-> canonicalLocations,
        forbiddenLocations |->
            forbidden("components") \o forbidden("docs") \o forbidden("lib"),
        duplicateStructures |->
            duplicate("components") \o duplicate("docs") \o duplicate("lib")]

\* catalogFeatures without the scan for component files.
catalogFeatures_UtilitiesOnly(entries) ==
    LET utilFiles == findFiles(entries, "*.ts", "lib")
        apiFiles == findFiles(entries, "*.ts", "api")
    IN {extractFeatureName(f) : f \in utilFiles \cup apiFiles} \ {""}

\* catalogFeatures: the names only; .filter(Boolean) drops the empty name.
catalogFeatures(entries) ==
    LET componentFiles == findFiles(entries, "*.tsx", "components")
        utilFiles == findFiles(entries, "*.ts", "lib")
        apiFiles == findFiles(entries, "*.ts", "api")
    IN {extractFeatureName(f) : f \in componentFiles \cup utilFiles \cup apiFiles} \ {""}

detectTestFramework(entries, testDirs) ==
    [name |-> IF "./jest.config.js" \in entries THEN "jest" ELSE "unknown",
     testPattern |-> "*.test.*",
     testLocation |-> IF Len(testDirs) > 0 THEN testDirs[1] ELSE "__tests__"]

\* detectPotentialConflicts reads this.projectMap, which the constructor has
\* not assigned yet while analyzeProject runs.
detectPotentialConflicts(projectMap) ==
    IF projectMap.live
    THEN [i \in 1..Len(projectMap.structure.duplicateStructures) |->
            [type |-> "duplicate_directory",
             location |-> projectMap.structure.duplicateStructures[i],
             recommendation |-> "Consolidate with canonical location"]]
    ELSE <<>>

\* The projectMap of an object under construction.
NoInstance == [live |-> FALSE]

\* The parts of analyzeProject that read the tree's entries only.
analyzeEntries(entries) ==
    [patterns |-> detectPatterns(entries),
     existingFeatures |-> catalogFeatures(entries)]

\* analyzeProject, given the tree's entries, what analyzeEntries made of them
\* and what the scans for directories returned.
analyzeProject(before, entries, ofEntries, componentDirs, docsDirs, libDirs, testDirs) ==
    [live |-> TRUE,
     structure |-> mapStructure(componentDirs, docsDirs, libDirs),
     patterns |-> ofEntries.patterns,
     existingFeatures |-> ofEntries.existingFeatures,
     testFramework |-> detectTestFramework(entries, testDirs),
     conflicts |-> detectPotentialConflicts(before)]

findSimilarFeatures(projectMap, feature) ==
    {existing \in projectMap.existingFeatures :
        \/ includes(toLowerCase(existing), toLowerCase(feature))
        \/ includes(toLowerCase(feature), toLowerCase(existing))}

preventDuplication(projectMap, proposedFeature) ==
    [isDuplicate |-> findSimilarFeatures(projectMap, proposedFeature) # {},
     alternatives |-> findSimilarFeatures(projectMap, proposedFeature)]

\* value || fallback, for a string.
OrElse(value, fallback) == IF value = "" THEN fallback ELSE value

\* suggestLocation whose switch has no case for documentation: the file type
\* falls through to the default.
suggestLocation_DocsInSrc(projectMap, fileType) ==
    LET canonical == projectMap.structure.canonicalLocations
    IN CASE fileType = "component" -> GetOr(canonical, "components", "src/components")
         [] fileType = "utility" -> GetOr(canonical, "lib", "src/lib")
         [] fileType = "test" -> OrElse(projectMap.testFramework.testLocation, "__tests__")
         [] OTHER -> "src"

suggestLocation(projectMap, fileType) ==
    LET canonical == projectMap.structure.canonicalLocations
    IN CASE fileType = "component" -> GetOr(canonical, "components", "src/components")
         [] fileType = "utility" -> GetOr(canonical, "lib", "src/lib")
         [] fileType = "test" -> OrElse(projectMap.testFramework.testLocation, "__tests__")
         [] fileType = "documentation" -> GetOr(canonical, "docs", "docs")
         [] OTHER -> "src"

\* The uppercase form of each character.
UpperOf ==
    [c \in CharsOf(Ascii) |->
        IF c \in LowerChars
        THEN CharAt(UpperAlpha, CHOOSE i \in 1..Len(LowerAlpha) : CharAt(LowerAlpha, i) = c)
        ELSE c]

\* name.charAt(0) and name.slice(1)
FirstChar(name) == IF Len(name) = 0 THEN "" ELSE CharAt(name, 1)
Slice1(name) == SubSeq(name, 2, Len(name))

\* .replace(/[A-Z]/g, '-$&'): a hyphen before every uppercase letter.
RECURSIVE HyphenateUpper(_)
HyphenateUpper(s) ==
    IF Len(s) = 0 THEN ""
    ELSE (IF IsUpper(CharAt(s, 1)) THEN "-" ELSE "") \o CharAt(s, 1)
            \o HyphenateUpper(Slice1(s))

\* .replace(/^-/, ''): without a leading hyphen.
DropLeadingHyphen(s) == IF startsWith(s, "-") THEN Slice1(s) ELSE s

\* suggestCorrectNaming: the kebab-case branch lowercases the name before it
\* looks for uppercase letters.
suggestCorrectNaming(name, pattern) ==
    CASE pattern = "PascalCase" ->
            (IF Len(name) = 0 THEN "" ELSE UpperOf[FirstChar(name)]) \o Slice1(name)
      [] pattern = "camelCase" ->
            (IF Len(name) = 0 THEN "" ELSE LowerOf[FirstChar(name)]) \o Slice1(name)
      [] pattern = "kebab-case" ->
            DropLeadingHyphen(HyphenateUpper(toLowerCase(name)))
      [] OTHER -> name

\* validateNaming: the pattern is looked up under the file type itself; the
\* name it suggests is in consider, the similar features in existing.
validateNaming(projectMap, proposedName, fileType) ==
    LET pattern == GetOr(projectMap.patterns, fileType, Undefined)
        namingIssue == pattern # Undefined /\ ~matchesPattern(proposedName, pattern)
        existing == findSimilarFeatures(projectMap, proposedName)
    IN [isValid |-> ~namingIssue /\ existing = {},
        issues |->
            (IF namingIssue THEN <<"Name doesn't match " \o pattern \o " pattern">>
             ELSE <<>>)
            \o (IF existing # {} THEN <<"Similar feature already exists">> ELSE <<>>),
        consider |->
            IF namingIssue THEN <<suggestCorrectNaming(proposedName, pattern)>>
            ELSE <<>>,
        existing |-> existing]

\* generateReport: the counts it prints under "Duplicate Prevention".
generateReport(projectMap) ==
    [canonicalLocations |-> Cardinality(DOMAIN projectMap.structure.canonicalLocations),
     forbiddenLocations |-> Len(projectMap.structure.forbiddenLocations),
     conflictsFound |-> Len(projectMap.conflicts)]

\* package.json as JSON.parse reads it: the names under dependencies and under
\* devDependencies.
NoPackageJson == [exists |-> FALSE, dependencies |-> {}, devDependencies |-> {}]

\* extractConventions: the framework is looked up among the keys of
\* dependencies, next before react before vue.
extractConventions(packageJson, hasTsconfig) ==
    [framework |->
        IF ~packageJson.exists THEN "unknown"
        ELSE IF "next" \in packageJson.dependencies THEN "nextjs"
        ELSE IF "react" \in packageJson.dependencies THEN "react"
        ELSE IF "vue" \in packageJson.dependencies THEN "vue"
        ELSE "unknown",
     language |-> IF hasTsconfig THEN "typescript" ELSE "unknown",
     testingFramework |->
        IF packageJson.exists /\ "jest" \in packageJson.devDependencies
        THEN "jest" ELSE "unknown",
     stylingFramework |->
        IF packageJson.exists /\ "tailwindcss" \in packageJson.dependencies
        THEN "tailwind" ELSE "unknown"]

-----------------------------------------------------------------------------
(* TDDProtocol                                                             *)

\* The feature kinds of FeatureSpec.type.
FeatureKinds == {"component", "utility", "api", "hook"}

\* What a caller can pass as the kind: the declared kinds and one that is not.
CallKinds == FeatureKinds \cup {"widget"}

\* The feature names the model's callers pass.
FeatureNames == {"User", "UserProfile"}

\* path.join of two relative paths: joined with "/" and normalised, which
\* drops a leading "./".
join(a, b) ==
    LET joined == a \o "/" \o b
    IN IF startsWith(joined, "./") THEN SubSeq(joined, 3, Len(joined)) ELSE joined

\* The path find prints for the entry a relative path names.
FsPath(p) == "./" \o p

detectTDDConfig(projectMap) ==
    IF projectMap.live
    THEN [testFramework |-> "jest",
          testLocation |-> OrElse(projectMap.testFramework.testLocation, "__tests__"),
          componentLocation |->
              GetOr(projectMap.structure.canonicalLocations, "components", "src/components"),
          utilityLocation |->
              GetOr(projectMap.structure.canonicalLocations, "lib", "src/lib")]
    ELSE [testFramework |-> "jest", testLocation |-> "__tests__",
          componentLocation |-> "src/components", utilityLocation |-> "src/lib"]

getTestPath(cfg, spec) ==
    join(join(cfg.testLocation, spec.type \o "s"), spec.name \o ".test.tsx")

getImplementationPath(cfg, spec) ==
    CASE spec.type = "component" -> join(cfg.componentLocation, spec.name \o ".tsx")
      [] spec.type = "utility" -> join(cfg.utilityLocation, spec.name \o ".ts")
      [] spec.type = "api" -> join(join("src/app/api", toLowerCase(spec.name)), "route.ts")
      [] spec.type = "hook" -> join("src/hooks", "use" \o spec.name \o ".ts")
      [] OTHER -> join("src", spec.name \o ".ts")

\* The template a generator's switch selects for the kind.
TemplateOf(type) == IF type \in FeatureKinds THEN type ELSE "generic"

\* getRelativeImportPath: the path does not depend on the configuration.
getRelativeImportPath(spec) == "../../" \o spec.type \o "s/" \o spec.name

\* generateTestContent: every template imports from getRelativeImportPath.
generateTestContent(spec) ==
    [stage |-> "test", template |-> TemplateOf(spec.type), name |-> spec.name,
     importPath |-> getRelativeImportPath(spec)]

generateMinimalImplementation(spec) ==
    [stage |-> "minimal", template |-> TemplateOf(spec.type), name |-> spec.name]

generateSelfHealingImplementation(spec) ==
    [stage |-> "selfHealing", template |-> TemplateOf(spec.type), name |-> spec.name]

\* ensureDirectoryExists: mkdirSync(dirPath, {recursive: true}) when missing.
ensureDirectoryExists(tree, dirPath) ==
    IF FsPath(dirPath) \in tree THEN tree ELSE tree \cup WithAncestors(FsPath(dirPath))

\* writeFileSync: creates the file or replaces its content.
writeFileSync(fs, path, content) ==
    [p \in DOMAIN fs \cup {FsPath(path)} |-> IF p = FsPath(path) THEN content ELSE fs[p]]

\* The content of a file the project's developers wrote.
UserContent == [stage |-> "user", template |-> "", name |-> ""]

\* Everything find visits: directories and files.
Entries == dirs \cup DOMAIN files

-----------------------------------------------------------------------------
(* The operations                                                          *)

NoSpec == [name |-> "", type |-> ""]

\* new TDDProtocol(): constructs a ProjectIntelligence, which analyses the
\* tree as it is now, then derives the TDD configuration from it.
Construct ==
    /\ pc = "idle"
    /\ runs < MaxRuns
    /\ LET ofEntries == analyzeEntries(Entries)
       IN \E componentDirs \in findDirectories(dirs, "components"),
             docsDirs \in findDirectories(dirs, "docs"),
             libDirs \in findDirectories(dirs, "lib"),
             testDirs \in findDirectories(dirs, "test") :
             LET projectMap ==
                     analyzeProject(NoInstance, Entries, ofEntries, componentDirs,
                                    docsDirs, libDirs, testDirs)
             IN /\ pi' = projectMap
                /\ scanned' = [components |-> componentDirs, docs |-> docsDirs,
                               lib |-> libDirs]
                /\ config' = detectTDDConfig(projectMap)
    /\ runs' = runs + 1
    /\ UNCHANGED <<dirs, files, pc, cur, result, calls, fn, sh>>

\* createFeature up to its first await: the duplicate check, then the naming
\* check; either one failing ends the call.
CreateFeatureBegin ==
    /\ pc = "idle"
    /\ pi.live
    /\ calls < MaxCalls
    /\ \E name \in FeatureNames, type \in CallKinds :
         LET spec == [name |-> name, type |-> type]
         IN /\ cur' = spec
            /\ IF preventDuplication(pi, name).isDuplicate
               THEN result' = "duplicate" /\ pc' = pc
               ELSE IF ~validateNaming(pi, name, type).isValid
               THEN result' = "naming" /\ pc' = pc
               ELSE result' = "running" /\ pc' = "test"
    /\ calls' = calls + 1
    /\ UNCHANGED <<dirs, files, pi, scanned, config, runs, fn, sh>>

\* createFailingTest that writes nothing.
CreateFailingTest_Skipped ==
    /\ pc = "test"
    /\ pc' = "impl"
    /\ UNCHANGED <<dirs, files, pi, scanned, config, cur, result, calls, runs, fn, sh>>

\* createFailingTest
CreateFailingTest ==
    /\ pc = "test"
    /\ dirs' = ensureDirectoryExists(dirs, Dirname(getTestPath(config, cur)))
    /\ files' = writeFileSync(files, getTestPath(config, cur), generateTestContent(cur))
    /\ pc' = "impl"
    /\ UNCHANGED <<pi, scanned, config, cur, result, calls, runs, fn, sh>>

\* createMinimalImplementation
CreateMinimalImplementation ==
    /\ pc = "impl"
    /\ dirs' = ensureDirectoryExists(dirs, Dirname(getImplementationPath(config, cur)))
    /\ files' = writeFileSync(files, getImplementationPath(config, cur),
                              generateMinimalImplementation(cur))
    /\ pc' = "heal"
    /\ UNCHANGED <<pi, scanned, config, cur, result, calls, runs, fn, sh>>

\* addSelfHealingMechanisms, and the return of createFeature
AddSelfHealingMechanisms ==
    /\ pc = "heal"
    /\ files' = writeFileSync(files, getImplementationPath(config, cur),
                              generateSelfHealingImplementation(cur))
    /\ pc' = "idle"
    /\ result' = "created"
    /\ UNCHANGED <<dirs, pi, scanned, config, cur, calls, runs, fn, sh>>

-----------------------------------------------------------------------------
(* The helpers applied in isolation: each run applies one helper once to    *)
(* one input.                                                              *)

\* Paths of component files, as findFiles prints them.
NamingFiles ==
    { "./src/components/Foo.tsx", "./src/components/fooBar.tsx",
      "./src/components/my-button.tsx", "./src/components/URL.tsx",
      "./src/components/foo.tsx" }

\* Entries of a tree that detectPatterns looks at or passes over.
PatternFiles == NamingFiles \cup {"./src/lib/dateUtil.ts", "./src/lib/dateUtil.test.ts"}

\* The lists of at most MaxFiles distinct elements of S.
ListsOf(S) == UNION {Perms(T) : T \in {U \in SUBSET S : Cardinality(U) <= MaxFiles}}

ApplySelectCanonicalLocation ==
    /\ fn.op = "none"
    /\ \E tree \in Trees, role \in Roles, other \in Roles :
         \E locations \in findDirectories(tree, role) :
            /\ Len(locations) > 0
            /\ fn' = [op |-> "selectCanonicalLocation",
                      locations |-> locations,
                      preferred |-> Preferred[other],
                      out |-> selectCanonicalLocation(locations, Preferred[other])]
    /\ UNCHANGED sysVars

\* A second application to the list and the preferred substring of the first.
ApplySelectCanonicalLocationAgain ==
    /\ fn.op = "selectCanonicalLocation"
    /\ LET second == selectCanonicalLocation(fn.locations, fn.preferred)
       IN fn' = [op |-> "selectCanonicalLocationTwice",
                 locations |-> fn.locations,
                 preferred |-> fn.preferred,
                 first |-> [canonical |-> fn.out,
                            violations |-> forbiddenOf(fn.locations, fn.out)],
                 second |-> [canonical |-> second,
                             violations |-> forbiddenOf(fn.locations, second)]]
    /\ UNCHANGED sysVars

ApplyFindDirectories ==
    /\ fn.op = "none"
    /\ \E tree \in Trees, name \in Roles :
         \E out \in findDirectories(tree, name) :
            fn' = [op |-> "findDirectories", tree |-> tree, name |-> name, out |-> out]
    /\ UNCHANGED sysVars

ApplyInstallCheckDuplicates ==
    /\ fn.op = "none"
    /\ \E tree \in Trees, name \in Roles :
         \E out \in installCheckDuplicates(tree, name) :
            fn' = [op |-> "installCheckDuplicates", tree |-> tree, name |-> name,
                   out |-> out]
    /\ UNCHANGED sysVars

ApplyDiscoveryCheckDuplicates ==
    /\ fn.op = "none"
    /\ \E tree \in Trees, name \in Roles :
         \E out \in discoveryCheckDuplicates(tree, name) :
            fn' = [op |-> "discoveryCheckDuplicates", tree |-> tree, name |-> name,
                   out |-> out]
    /\ UNCHANGED sysVars

ApplyMapStructure ==
    /\ fn.op = "none"
    /\ \E tree \in Trees :
         \E componentDirs \in findDirectories(tree, "components"),
            docsDirs \in findDirectories(tree, "docs"),
            libDirs \in findDirectories(tree, "lib") :
            fn' = [op |-> "mapStructure", tree |-> tree,
                   found |-> [components |-> componentDirs, docs |-> docsDirs,
                              lib |-> libDirs],
                   out |-> mapStructure(componentDirs, docsDirs, libDirs)]
    /\ UNCHANGED sysVars

ApplyDetectNamingPattern ==
    /\ fn.op = "none"
    /\ \E fileList \in ListsOf(NamingFiles) :
         fn' = [op |-> "detectNamingPattern", fileList |-> fileList,
                out |-> detectNamingPattern(fileList)]
    /\ UNCHANGED sysVars

ApplyDetectPatterns ==
    /\ fn.op = "none"
    /\ \E entries \in {U \in SUBSET PatternFiles : Cardinality(U) <= MaxFiles} :
         fn' = [op |-> "detectPatterns", entries |-> entries,
                out |-> detectPatterns(entries)]
    /\ UNCHANGED sysVars

\* The file types suggestLocation is asked about: those of its switch, two
\* feature kinds it has no case for, and the empty string.
FileTypes == {"component", "utility", "test", "documentation", "api", "hook", ""}

\* new ProjectIntelligence() on a tree, then suggestLocation(fileType, name).
ApplySuggestLocation ==
    /\ fn.op = "none"
    /\ \E tree \in Trees, fileType \in FileTypes :
         \E componentDirs \in findDirectories(tree, "components"),
            docsDirs \in findDirectories(tree, "docs"),
            libDirs \in findDirectories(tree, "lib"),
            testDirs \in findDirectories(tree, "test") :
            LET projectMap ==
                    analyzeProject(NoInstance, tree, analyzeEntries(tree),
                                   componentDirs, docsDirs, libDirs, testDirs)
            IN fn' = [op |-> "suggestLocation", fileType |-> fileType,
                      found |-> [components |-> componentDirs, docs |-> docsDirs,
                                 lib |-> libDirs, test |-> testDirs],
                      canonical |-> projectMap.structure.canonicalLocations,
                      out |-> suggestLocation(projectMap, fileType)]
    /\ UNCHANGED sysVars

\* Files of a project a proposed feature is validated against, and the
\* feature names proposed.
ValidateFiles ==
    { "./src/components/LoginForm.tsx", "./src/components/forms/SignupForm.tsx",
      "./src/lib/loginHelper.ts", "./src/pages/Cart.tsx",
      "./node_modules/ui/components/LoginForm.tsx" }

ProposedNames == {"LoginForm", "SignupForm", "Cart"}

\* new ProjectIntelligence() on a tree, then preventDuplication(feature).
ApplyPreventDuplication ==
    /\ fn.op = "none"
    /\ \E fileSet \in {U \in SUBSET ValidateFiles : Cardinality(U) <= MaxFiles},
          feature \in ProposedNames :
         LET tree == UNION {Ancestors(p) : p \in fileSet}
             entries == tree \cup fileSet
         IN \E componentDirs \in findDirectories(tree, "components"),
               docsDirs \in findDirectories(tree, "docs"),
               libDirs \in findDirectories(tree, "lib"),
               testDirs \in findDirectories(tree, "test") :
               LET projectMap ==
                       analyzeProject(NoInstance, entries, analyzeEntries(entries),
                                      componentDirs, docsDirs, libDirs, testDirs)
               IN fn' = [op |-> "preventDuplication", entries |-> entries,
                         feature |-> feature,
                         out |-> preventDuplication(projectMap, feature)]
    /\ UNCHANGED sysVars

\* The three writes of createFeature, run to the end on a tree.
writeFeature(cfg, tree, fs, spec) ==
    LET testPath == getTestPath(cfg, spec)
        implementationPath == getImplementationPath(cfg, spec)
        withTestDir == ensureDirectoryExists(tree, Dirname(testPath))
        withTest == writeFileSync(fs, testPath, generateTestContent(spec))
        withImplDir == ensureDirectoryExists(withTestDir, Dirname(implementationPath))
        withImpl == writeFileSync(withTest, implementationPath,
                                  generateMinimalImplementation(spec))
    IN [dirs |-> withImplDir,
        files |-> writeFileSync(withImpl, implementationPath,
                                generateSelfHealingImplementation(spec))]

\* createFeature that writes the feature first and checks afterwards.
createFeature_WriteFirst(projectMap, cfg, tree, fs, spec) ==
    LET written == writeFeature(cfg, tree, fs, spec)
    IN IF preventDuplication(projectMap, spec.name).isDuplicate
       THEN [result |-> "duplicate", dirs |-> written.dirs, files |-> written.files]
       ELSE IF ~validateNaming(projectMap, spec.name, spec.type).isValid
       THEN [result |-> "naming", dirs |-> written.dirs, files |-> written.files]
       ELSE [result |-> "created", dirs |-> written.dirs, files |-> written.files]

\* createFeature run from its call to its return: how it ended and the tree
\* it left.
createFeature(projectMap, cfg, tree, fs, spec) ==
    IF preventDuplication(projectMap, spec.name).isDuplicate
    THEN [result |-> "duplicate", dirs |-> tree, files |-> fs]
    ELSE IF ~validateNaming(projectMap, spec.name, spec.type).isValid
    THEN [result |-> "naming", dirs |-> tree, files |-> fs]
    ELSE LET written == writeFeature(cfg, tree, fs, spec)
         IN [result |-> "created", dirs |-> written.dirs, files |-> written.files]

\* Files of a project a feature is created in, and the names and kinds
\* createFeature is called with: the declared kinds, one that is not declared
\* and one that is a key of the recorded naming patterns.
CreateFiles ==
    { "./src/components/UserCard.tsx", "./src/components/navBar.tsx",
      "./src/lib/session.ts" }

CreateNames == {"User", "user", "nav-bar"}

CreateKinds == CallKinds \cup {"components"}

\* new TDDProtocol() on a tree, then createFeature(spec) to its return.
ApplyCreateFeature ==
    /\ fn.op = "none"
    /\ \E fileSet \in {U \in SUBSET CreateFiles : Cardinality(U) <= MaxFiles},
          name \in CreateNames, type \in CreateKinds :
         LET tree == UNION {Ancestors(p) : p \in fileSet}
             fs == [p \in fileSet |-> UserContent]
             entries == tree \cup fileSet
             spec == [name |-> name, type |-> type]
         IN \E componentDirs \in findDirectories(tree, "components"),
               docsDirs \in findDirectories(tree, "docs"),
               libDirs \in findDirectories(tree, "lib"),
               testDirs \in findDirectories(tree, "test") :
               LET projectMap ==
                       analyzeProject(NoInstance, entries, analyzeEntries(entries),
                                      componentDirs, docsDirs, libDirs, testDirs)
                   cfg == detectTDDConfig(projectMap)
               IN fn' = [op |-> "createFeature", spec |-> spec,
                         dirs |-> tree, files |-> fs,
                         patterns |-> projectMap.patterns,
                         isDuplicate |->
                             preventDuplication(projectMap, name).isDuplicate,
                         isValid |-> validateNaming(projectMap, name, type).isValid,
                         out |-> createFeature(projectMap, cfg, tree, fs, spec)]
    /\ UNCHANGED sysVars

\* new TDDProtocol() on a tree, then the test skeleton for a feature and the
\* paths of its test and of its implementation.
ApplyGenerateTestContent ==
    /\ fn.op = "none"
    /\ \E tree \in Trees, name \in FeatureNames, type \in CallKinds :
         LET spec == [name |-> name, type |-> type]
         IN \E componentDirs \in findDirectories(tree, "components"),
               docsDirs \in findDirectories(tree, "docs"),
               libDirs \in findDirectories(tree, "lib"),
               testDirs \in findDirectories(tree, "test") :
               LET projectMap ==
                       analyzeProject(NoInstance, tree, analyzeEntries(tree),
                                      componentDirs, docsDirs, libDirs, testDirs)
                   cfg == detectTDDConfig(projectMap)
               IN fn' = [op |-> "generateTestContent", spec |-> spec,
                         config |-> cfg,
                         testPath |-> getTestPath(cfg, spec),
                         implementationPath |-> getImplementationPath(cfg, spec),
                         out |-> generateTestContent(spec)]
    /\ UNCHANGED sysVars

\* The keys validateNaming is asked about: those of NamingPatterns and one
\* feature kind; and the names proposed.
NamingKeys == {"components", "utilities", "tests", "apiRoutes", "component"}

SuggestNames ==
    {"user", "User", "userProfile", "UserProfile", "my-button", "user_profile",
     "2fa"}

\* new ProjectIntelligence() on a tree, then validateNaming(name, fileType);
\* again is what suggestCorrectNaming makes of the name it suggested.
ApplyValidateNaming ==
    /\ fn.op = "none"
    /\ \E fileSet \in {U \in SUBSET CreateFiles : Cardinality(U) <= MaxFiles},
          name \in SuggestNames, fileType \in NamingKeys :
         LET tree == UNION {Ancestors(p) : p \in fileSet}
             entries == tree \cup fileSet
         IN \E componentDirs \in findDirectories(tree, "components"),
               docsDirs \in findDirectories(tree, "docs"),
               libDirs \in findDirectories(tree, "lib"),
               testDirs \in findDirectories(tree, "test") :
               LET projectMap ==
                       analyzeProject(NoInstance, entries, analyzeEntries(entries),
                                      componentDirs, docsDirs, libDirs, testDirs)
                   pattern == GetOr(projectMap.patterns, fileType, Undefined)
                   out == validateNaming(projectMap, name, fileType)
               IN fn' = [op |-> "validateNaming", name |-> name,
                         fileType |-> fileType, pattern |-> pattern,
                         out |-> out,
                         again |-> [i \in 1..Len(out.consider) |->
                                       suggestCorrectNaming(out.consider[i], pattern)]]
    /\ UNCHANGED sysVars

-----------------------------------------------------------------------------
(* The shell scripts: what decides the exit status of a run                *)

\* A script run: the script, its arguments, the function main calls next
\* ("exit" once the process has ended), the exit status (-1 while running),
\* the functions entered so far, the lines the search printed, the installer's
\* flags, and the discovery run the installer has started.
NoFlags == [SKIP_DISCOVERY |-> FALSE, MINIMAL_INSTALL |-> FALSE]

NoSub ==
    [script |-> "none", args |-> <<>>, at |-> "none", status |-> -1, ran |-> <<>>,
     found |-> {}, flags |-> NoFlags]

NoRun ==
    [script |-> "none", args |-> <<>>, at |-> "none", status |-> -1, ran |-> <<>>,
     found |-> {}, flags |-> NoFlags, sub |-> NoSub]

\* Exit status of a pipeline that ends in grep: 0 when grep prints a line.
GrepStatus(lines) == IF lines = {} THEN 1 ELSE 0

\* Exit status of "... | head -n | xargs basename -a": with no input line an
\* xargs that still runs the command once (GNU) gets basename's "missing
\* operand" and exits 123; an xargs that skips the command (BSD) exits 0.
XargsBasenameStatus(lines, runsOnEmpty) == IF lines = {} /\ runsOnEmpty THEN 123 ELSE 0

\* set -e: the status of the first command of the function that fails, 0 when
\* none does.
RECURSIVE FirstFailure(_)
FirstFailure(statuses) ==
    IF Len(statuses) = 0 THEN 0
    ELSE IF Head(statuses) # 0 THEN Head(statuses)
    ELSE FirstFailure(Tail(statuses))

\* find . -name p1 -o -name p2 ...
FindAnyName(entries, patterns) ==
    {p \in entries : \E pat \in patterns : GlobMatch(Basename(p), pat)}

\* find . -iname "*<term>*" -type f
FindINameFiles(fileSet, term) ==
    {p \in fileSet : includes(toLowerCase(Basename(p)), toLowerCase(term))}

\* grep -E "(w1|w2|...)": the lines that contain one of the words.
GrepWords(lines, words) == {p \in lines : \E w \in words : includes(p, w)}

\* The entries ls -la lists: those directly below the root.  The lines of "."
\* and "..", and the owner and date columns, are taken to hold none of the
\* words grep looks for.
RootEntries(entries) == {Basename(p) : p \in {q \in entries : Cardinality(SlashesOf(q)) = 1}}

\* analyze_file_types: its other pipelines end in head, which exits 0.
analyzeFileTypes(fileSet) ==
    GrepStatus(GrepVNodeModules(
        GrepWords(FindAnyName(fileSet, {"*.json"}), {"config", "settings", "package"})))

detectConfigurations(entries) ==
    GrepStatus(GrepWords(RootEntries(entries),
                         {"config", "env", "settings", ".json", ".yml", ".yaml", ".toml"}))

\* check_duplicates of the discovery script: five pipelines that end in grep.
discoveryCheckDuplicatesStatus(tree, entries) ==
    FirstFailure(
        << GrepStatus(GrepVNodeModules(FindDirsNamed(tree, "components"))),
           GrepStatus(GrepVNodeModules(FindDirsNamed(tree, "docs"))),
           GrepStatus(GrepVNodeModules(FindDirsNamed(tree, "lib"))),
           GrepStatus(GrepVNodeModules(FindDirsNamed(tree, "utils"))),
           GrepStatus(GrepVNodeModules(
               FindAnyName(entries, {"test", "tests", "__tests__"}))) >>)

analyzeNamingConventions(entries, runsOnEmpty) ==
    FirstFailure(
        << XargsBasenameStatus(
               GrepVNodeModules(FindAnyName(entries, {"*.ts", "*.tsx", "*.js", "*.jsx"})),
               runsOnEmpty),
           XargsBasenameStatus(
               GrepVNodeModules(FindAnyName(entries, {"*Component*", "*component*"})),
               runsOnEmpty),
           XargsBasenameStatus(
               GrepVNodeModules(FindAnyName(entries, {"*.test.*", "*.spec.*"})),
               runsOnEmpty) >>)

\* check_common_duplicates of validate-before-create.sh: five pipelines that
\* end in grep -v .git.
checkCommonDuplicates(tree, fileSet) ==
    FirstFailure(
        << GrepStatus(GrepVDotGit(GrepVNodeModules(FindDirsNamed(tree, "components")))),
           GrepStatus(GrepVDotGit(GrepVNodeModules(FindDirsNamed(tree, "docs")))),
           GrepStatus(GrepVDotGit(GrepVNodeModules(FindDirsNamed(tree, "lib")))),
           GrepStatus(GrepVDotGit(GrepVNodeModules(FindDirsNamed(tree, "utils")))),
           GrepStatus(GrepVDotGit(GrepVNodeModules(
               FindAnyName(fileSet, {"*.config.*"})))) >>)

\* search_functionality, "In file names": the lines printed (head keeps the
\* first five; the trees of the model never hold more).  Both pipelines of the
\* function end in head, so it cannot fail.
validateSearch(fileSet, term) ==
    GrepVDotGit(GrepVNodeModules(FindINameFiles(fileSet, term)))

discoverySearch(fileSet, term) == GrepVNodeModules(FindINameFiles(fileSet, term))

\* What grep -q "<word>" <file> 2>/dev/null makes of the file: the model keeps
\* the text of a manifest in the name field of its content.
FileHas(fs, path, word) == path \in DOMAIN fs /\ includes(fs[path].name, word)

\* detect_project_type of the installer: "type,framework,language".
detect_project_type(fs) ==
    LET has(path) == path \in DOMAIN fs
        first(path, words, none) ==
            LET hits == {i \in 1..Len(words) : FileHas(fs, path, words[i][1])}
            IN IF hits = {} THEN none
               ELSE words[CHOOSE i \in hits : \A j \in hits : i <= j][2]
    IN IF has("./package.json")
       THEN "web-app,"
            \o first("./package.json",
                     << <<"next", "nextjs">>, <<"react", "react">>, <<"vue", "vue">>,
                        <<"angular", "angular">> >>, "unknown")
            \o "," \o (IF FileHas(fs, "./package.json", "typescript")
                       THEN "typescript" ELSE "javascript")
       ELSE IF has("./requirements.txt") \/ has("./pyproject.toml")
       THEN "web-app,"
            \o first("./requirements.txt",
                     << <<"django", "django">>, <<"flask", "flask">>,
                        <<"fastapi", "fastapi">> >>, "unknown")
            \o ",python"
       ELSE IF has("./Cargo.toml") THEN "application,unknown,rust"
       ELSE IF has("./go.mod") THEN "application,unknown,go"
       ELSE "unknown,unknown,unknown"

\* What curl writes and what the installer's here-documents write.
Downloaded(what) == [stage |-> "download", template |-> what, name |-> ""]
Installed(what, info) == [stage |-> "install", template |-> what, name |-> info]

CoreScripts ==
    << "scripts/ultimate-project-discovery.sh", "scripts/validate-before-create.sh",
       "scripts/project-intelligence.ts", "scripts/tdd-protocol.ts" >>

Documentation ==
    << "docs/ULTIMATE_PROJECT_MANAGEMENT_PROTOCOL.md",
       "docs/UNIVERSAL_DUPLICATE_PREVENTION_TEMPLATE.md",
       "docs/SYSTEMATIC_DUPLICATE_PREVENTION_PROTOCOL.md" >>

\* The file system after the first k downloads of the list.
RECURSIVE downloadFiles(_, _, _)
downloadFiles(fs, list, k) ==
    IF k = 0 THEN fs
    ELSE writeFileSync(downloadFiles(fs, list, k - 1), list[k], Downloaded(list[k]))

\* The installer's argument loop: the first -h/--help ends the run with 0, the
\* first unknown option with 1, the two flags set their variable.
RECURSIVE parseArguments(_, _)
parseArguments(args, flags) ==
    IF Len(args) = 0 THEN [status |-> -1, flags |-> flags]
    ELSE IF Head(args) \in {"-h", "--help"} THEN [status |-> 0, flags |-> flags]
    ELSE IF Head(args) = "--no-discovery"
    THEN parseArguments(Tail(args), [flags EXCEPT !.SKIP_DISCOVERY = TRUE])
    ELSE IF Head(args) = "--minimal"
    THEN parseArguments(Tail(args), [flags EXCEPT !.MINIMAL_INSTALL = TRUE])
    ELSE [status |-> 1, flags |-> flags]

\* The framework generate_project_intelligence of the discovery script
\* prints: four grep -q tests in a row, each one that matches assigns.
generate_project_intelligence(fs) ==
    LET words == << <<"next", "nextjs">>, <<"react", "react">>, <<"vue", "vue">>,
                    <<"angular", "angular">> >>
        hits == {i \in 1..Len(words) : FileHas(fs, "./package.json", words[i][1])}
    IN IF "./package.json" \notin DOMAIN fs \/ hits = {} THEN "unknown"
       ELSE words[CHOOSE i \in hits : \A j \in hits : j <= i][2]

\* The first "," of s at or after position i, 0 when there is none.
RECURSIVE FirstCommaFrom(_, _)
FirstCommaFrom(s, i) ==
    IF i > Len(s) THEN 0
    ELSE IF CharAt(s, i) = "," THEN i
    ELSE FirstCommaFrom(s, i + 1)

\* echo $project_info | cut -d',' -f<field>
RECURSIVE cut(_, _)
cut(s, field) ==
    LET comma == FirstCommaFrom(s, 1)
    IN IF field = 1
       THEN IF comma = 0 THEN s ELSE SubSeq(s, 1, comma - 1)
       ELSE IF comma = 0 THEN ""
       ELSE cut(SubSeq(s, comma + 1, Len(s)), field - 1)

\* The frameworks a package.json lists and the other packages beside them.
Frameworks == {"next", "react", "vue"}

DevPackages == {"jest"}

\* The text of a package.json, which grep searches, for what JSON.parse reads
\* from it.
RECURSIVE ListText(_)
ListText(names) ==
    IF names = {} THEN ""
    ELSE LET n == CHOOSE m \in names : \A k \in names : m = k \/ LexLess(m, k)
         IN " " \o n \o ":*" \o ListText(names \ {n})

PackageText(packageJson) ==
    "dependencies:" \o ListText(packageJson.dependencies)
        \o " devDependencies:" \o ListText(packageJson.devDependencies)

\* The three framework detectors applied to one package.json.
ApplyDetectFramework ==
    /\ fn.op = "none"
    /\ \E dependencies \in SUBSET Frameworks, devDependencies \in SUBSET DevPackages :
         LET packageJson == [exists |-> TRUE, dependencies |-> dependencies,
                             devDependencies |-> devDependencies]
             fs == [p \in {"./package.json"} |->
                       [stage |-> "user", template |-> "package.json",
                        name |-> PackageText(packageJson)]]
         IN fn' = [op |-> "detectFramework", packageJson |-> packageJson,
                   text |-> PackageText(packageJson),
                   extractConventions |-> extractConventions(packageJson, FALSE).framework,
                   detect_project_type |-> cut(detect_project_type(fs), 2),
                   generate_project_intelligence |-> generate_project_intelligence(fs)]
    /\ UNCHANGED sysVars

-----------------------------------------------------------------------------
(* The shell scripts: the runs, one step per function main calls           *)

\* The arguments the scripts are started with.
DiscoveryArgs == {<<>>, <<"LoginForm">>, <<"--help">>}
ValidateArgs ==
    {<<>>, <<"LoginForm">>, <<"Cart">>, <<"LoginForm", "--force">>,
     <<"--force", "LoginForm">>, <<"--help">>}
InstallArgs ==
    {<<>>, <<"--no-discovery">>, <<"--minimal">>, <<"--minimal", "--no-discovery">>,
     <<"--fast">>, <<"--help">>}

\* The run has entered the function `name`; a non-zero status ends the
\* process there (set -e), otherwise main goes on to `next`.
Step(run, name, status, next) ==
    [run EXCEPT !.ran = Append(@, name),
                !.status = IF status # 0 THEN status ELSE @,
                !.at = IF status # 0 THEN "exit" ELSE next]

\* The end of main: the process exits with 0.
Finish(run, name) == [run EXCEPT !.ran = Append(@, name), !.status = 0, !.at = "exit"]

\* The discovery run in progress: started from the command line, or by the
\* installer's run_initial_discovery.
Discovery == IF sh.script = "install" THEN sh.sub ELSE sh

PutDiscovery(run) == IF sh.script = "install" THEN [sh EXCEPT !.sub = run] ELSE run

DiscoveryAt(name) == Discovery.script = "discovery" /\ Discovery.at = name

\* ./ultimate-project-discovery.sh [search_term]
DiscStart ==
    /\ sh.script = "none"
    /\ \E args \in DiscoveryArgs :
         LET run == [NoRun EXCEPT !.script = "discovery", !.args = args]
         IN sh' = IF Len(args) > 0 /\ args[1] \in {"-h", "--help"}
                  THEN Finish(run, "show_help")
                  ELSE [run EXCEPT !.at = "analyze_file_types"]
    /\ UNCHANGED <<dirs, files, tddVars, fn>>

DiscAnalyzeFileTypes ==
    /\ DiscoveryAt("analyze_file_types")
    /\ sh' = PutDiscovery(Step(Discovery, "analyze_file_types",
                               analyzeFileTypes(DOMAIN files), "detect_configurations"))
    /\ UNCHANGED <<dirs, files, tddVars, fn>>

DiscDetectConfigurations ==
    /\ DiscoveryAt("detect_configurations")
    /\ sh' = PutDiscovery(Step(Discovery, "detect_configurations",
                               detectConfigurations(Entries), "analyze_patterns"))
    /\ UNCHANGED <<dirs, files, tddVars, fn>>

\* analyze_patterns: pipelines that end in head, and && lists whose first
\* command is the test.
DiscAnalyzePatterns ==
    /\ DiscoveryAt("analyze_patterns")
    /\ sh' = PutDiscovery(Step(Discovery, "analyze_patterns", 0, "detect_framework"))
    /\ UNCHANGED <<dirs, files, tddVars, fn>>

\* detect_framework: every grep is followed by || echo.
DiscDetectFramework ==
    /\ DiscoveryAt("detect_framework")
    /\ sh' = PutDiscovery(Step(Discovery, "detect_framework", 0, "check_duplicates"))
    /\ UNCHANGED <<dirs, files, tddVars, fn>>

DiscCheckDuplicates ==
    /\ DiscoveryAt("check_duplicates")
    /\ sh' = PutDiscovery(Step(Discovery, "check_duplicates",
                               discoveryCheckDuplicatesStatus(dirs, Entries),
                               "analyze_naming_conventions"))
    /\ UNCHANGED <<dirs, files, tddVars, fn>>

DiscAnalyzeNamingConventions ==
    /\ DiscoveryAt("analyze_naming_conventions")
    /\ \E runsOnEmpty \in BOOLEAN :
         sh' = PutDiscovery(Step(Discovery, "analyze_naming_conventions",
                                 analyzeNamingConventions(Entries, runsOnEmpty),
                                 "generate_project_intelligence"))
    /\ UNCHANGED <<dirs, files, tddVars, fn>>

\* generate_project_intelligence prints what it detects and writes no file;
\* then main searches when it was given an argument.
DiscGenerateProjectIntelligence ==
    /\ DiscoveryAt("generate_project_intelligence")
    /\ sh' = PutDiscovery(Step(Discovery, "generate_project_intelligence", 0,
                               IF Len(Discovery.args) > 0 THEN "search_functionality"
                               ELSE "complete"))
    /\ UNCHANGED <<dirs, files, tddVars, fn>>

DiscSearchFunctionality ==
    /\ DiscoveryAt("search_functionality")
    /\ sh' = PutDiscovery(
                [Step(Discovery, "search_functionality", 0, "complete")
                    EXCEPT !.found = discoverySearch(DOMAIN files, Discovery.args[1])])
    /\ UNCHANGED <<dirs, files, tddVars, fn>>

\* The closing lines of main ("Create/update .project_context.md" is advice
\* printed to the user), then the end of the script.
DiscComplete ==
    /\ DiscoveryAt("complete")
    /\ sh' = PutDiscovery(Finish(Discovery, "complete"))
    /\ UNCHANGED <<dirs, files, tddVars, fn>>

\* ./validate-before-create.sh [search_term]: only "$1" is looked at, as -h or
\* --help before main and as the search term in main.
ValStart ==
    /\ sh.script = "none"
    /\ \E args \in ValidateArgs :
         LET run == [NoRun EXCEPT !.script = "validate", !.args = args]
         IN sh' = IF Len(args) > 0 /\ args[1] \in {"-h", "--help"}
                  THEN Finish(run, "show_help")
                  ELSE [run EXCEPT !.at = "validate_structure"]
    /\ UNCHANGED <<dirs, files, tddVars, fn>>

\* validate_structure: if/else around echo.
ValValidateStructure ==
    /\ sh.script = "validate" /\ sh.at = "validate_structure"
    /\ sh' = Step(sh, "validate_structure", 0, "check_common_duplicates")
    /\ UNCHANGED <<dirs, files, tddVars, fn>>

ValCheckCommonDuplicates ==
    /\ sh.script = "validate" /\ sh.at = "check_common_duplicates"
    /\ sh' = Step(sh, "check_common_duplicates",
                  checkCommonDuplicates(dirs, DOMAIN files),
                  IF Len(sh.args) > 0 THEN "search_functionality" ELSE "complete")
    /\ UNCHANGED <<dirs, files, tddVars, fn>>

ValSearchFunctionality ==
    /\ sh.script = "validate" /\ sh.at = "search_functionality"
    /\ sh' = [Step(sh, "search_functionality", 0, "complete")
                 EXCEPT !.found = validateSearch(DOMAIN files, sh.args[1])]
    /\ UNCHANGED <<dirs, files, tddVars, fn>>

ValComplete ==
    /\ sh.script = "validate" /\ sh.at = "complete"
    /\ sh' = Finish(sh, "complete")
    /\ UNCHANGED <<dirs, files, tddVars, fn>>

\* ./install.sh [options]: the argument loop, then main.
InstStart ==
    /\ sh.script = "none"
    /\ \E args \in InstallArgs :
         LET parsed == parseArguments(args, NoFlags)
             run == [NoRun EXCEPT !.script = "install", !.args = args,
                                  !.flags = parsed.flags]
         IN sh' = IF parsed.status >= 0
                  THEN [run EXCEPT !.ran = <<"show_help">>, !.status = parsed.status,
                                   !.at = "exit"]
                  ELSE [run EXCEPT !.at = "create_directories"]
    /\ UNCHANGED <<dirs, files, tddVars, fn>>

\* mkdir -p scripts docs
InstCreateDirectories ==
    /\ sh.script = "install" /\ sh.at = "create_directories"
    /\ dirs' = dirs \cup {"./scripts", "./docs"}
    /\ sh' = Step(sh, "create_directories", 0, "download_core_scripts")
    /\ UNCHANGED <<files, tddVars, fn>>

\* download_core_scripts: the download that fails, if one does, returns 1 and
\* ends the run; the ones before it have written their file.
InstDownloadCoreScripts ==
    /\ sh.script = "install" /\ sh.at = "download_core_scripts"
    /\ \E k \in 0..Len(CoreScripts) :
         /\ files' = downloadFiles(files, CoreScripts, k)
         /\ sh' = Step(sh, "download_core_scripts",
                       IF k < Len(CoreScripts) THEN 1 ELSE 0, "download_documentation")
    /\ UNCHANGED <<dirs, tddVars, fn>>

InstDownloadDocumentation ==
    /\ sh.script = "install" /\ sh.at = "download_documentation"
    /\ \E k \in 0..Len(Documentation) :
         /\ files' = downloadFiles(files, Documentation, k)
         /\ sh' = Step(sh, "download_documentation",
                       IF k < Len(Documentation) THEN 1 ELSE 0, "create_project_config")
    /\ UNCHANGED <<dirs, tddVars, fn>>

\* cat > project-config.yml
InstCreateProjectConfig ==
    /\ sh.script = "install" /\ sh.at = "create_project_config"
    /\ files' = writeFileSync(files, "project-config.yml",
                              Installed("project-config", detect_project_type(files)))
    /\ sh' = Step(sh, "create_project_config", 0, "create_project_context")
    /\ UNCHANGED <<dirs, tddVars, fn>>

\* cat > .project_context.md (the date the text carries is left out)
InstCreateProjectContext ==
    /\ sh.script = "install" /\ sh.at = "create_project_context"
    /\ files' = writeFileSync(files, ".project_context.md",
                              Installed("project-context", detect_project_type(files)))
    /\ sh' = Step(sh, "create_project_context", 0, "run_initial_discovery")
    /\ UNCHANGED <<dirs, tddVars, fn>>

\* run_initial_discovery: runs the downloaded discovery script when the file
\* is there and waits for it.
InstRunInitialDiscovery ==
    /\ sh.script = "install" /\ sh.at = "run_initial_discovery"
    /\ sh' = IF "./scripts/ultimate-project-discovery.sh" \in DOMAIN files
             THEN [Step(sh, "run_initial_discovery", 0, "wait")
                      EXCEPT !.sub = [NoSub EXCEPT !.script = "discovery",
                                                   !.at = "analyze_file_types"]]
             ELSE Step(sh, "run_initial_discovery", 0, "show_completion")
    /\ UNCHANGED <<dirs, files, tddVars, fn>>

\* The discovery script has exited: a non-zero status ends the installer with
\* that status (set -e inside a function, where the ERR trap is not inherited).
InstDiscoveryExits ==
    /\ sh.script = "install" /\ sh.at = "wait"
    /\ sh.sub.at = "exit"
    /\ sh' = [sh EXCEPT !.status = IF sh.sub.status # 0 THEN sh.sub.status ELSE @,
                        !.at = IF sh.sub.status # 0 THEN "exit" ELSE "show_completion"]
    /\ UNCHANGED <<dirs, files, tddVars, fn>>

InstShowCompletion ==
    /\ sh.script = "install" /\ sh.at = "show_completion"
    /\ sh' = Finish(sh, "show_completion")
    /\ UNCHANGED <<dirs, files, tddVars, fn>>

-----------------------------------------------------------------------------
(* Specifications                                                          *)

\* Files a project may hold before the tool runs, written by its developers.
SeedFiles == {"./src/components/UserProfile.tsx"}

\* No instance constructed, no call made.
TddInit ==
    /\ pi = NoInstance
    /\ scanned = [components |-> <<>>, docs |-> <<>>, lib |-> <<>>]
    /\ config = detectTDDConfig(NoInstance)
    /\ pc = "idle"
    /\ cur = NoSpec
    /\ result = "none"
    /\ calls = 0
    /\ runs = 0

SysInit(trees, seeds) ==
    /\ \E tree \in trees, seed \in SUBSET seeds :
         /\ files = [p \in seed |-> UserContent]
         /\ dirs = tree \cup UNION {Ancestors(p) : p \in seed}
    /\ TddInit

NoCall == [op |-> "none"]

\* The tool run on a project tree.
Init == SysInit(ProjectTrees, SeedFiles) /\ fn = NoCall /\ sh = NoRun

Next ==
    \/ Construct
    \/ CreateFeatureBegin
    \/ CreateFailingTest
    \/ CreateMinimalImplementation
    \/ AddSelfHealingMechanisms

Spec == Init /\ [][Next]_vars

\* The helpers applied in isolation to inputs drawn from the bounded sets.
FnInit == SysInit({{}}, {}) /\ fn = NoCall /\ sh = NoRun

FnNext ==
    \/ ApplySelectCanonicalLocation
    \/ ApplySelectCanonicalLocationAgain
    \/ ApplyFindDirectories
    \/ ApplyInstallCheckDuplicates
    \/ ApplyDiscoveryCheckDuplicates
    \/ ApplyMapStructure
    \/ ApplyDetectNamingPattern
    \/ ApplyDetectPatterns
    \/ ApplyPreventDuplication
    \/ ApplySuggestLocation
    \/ ApplyCreateFeature
    \/ ApplyGenerateTestContent
    \/ ApplyDetectFramework
    \/ ApplyValidateNaming

FnSpec == FnInit /\ [][FnNext]_vars

\* A project that has everything the scripts look for, directories and files
\* with their content; .project_context.md is as an earlier installation
\* left it.
ProjectDirs == {"./src/components", "./docs", "./lib", "./utils", "./__tests__"}

ProjectFiles ==
    [p \in { "./package.json", "./jest.config.js", "./src/components/LoginForm.tsx",
             "./__tests__/LoginForm.test.tsx", "./.project_context.md" } |->
        IF p = "./package.json"
        THEN [stage |-> "user", template |-> "package.json", name |-> "react jest"]
        ELSE IF p = "./.project_context.md"
        THEN Installed("project-context", "unknown,unknown,unknown")
        ELSE UserContent]

\* The trees the scripts are run on: the project with up to MaxMissing of its
\* directories and files missing, and the empty directory.
ShellTrees ==
    LET items == ProjectDirs \cup DOMAIN ProjectFiles
    IN {items \ missing :
           missing \in {M \in SUBSET items : Cardinality(M) <= MaxMissing}} \cup {{}}

ShInit ==
    /\ \E kept \in ShellTrees :
         /\ files = [p \in kept \cap DOMAIN ProjectFiles |-> ProjectFiles[p]]
         /\ dirs = UNION {WithAncestors(d) : d \in kept \cap ProjectDirs}
                       \cup UNION {Ancestors(p) : p \in kept \cap DOMAIN ProjectFiles}
    /\ TddInit
    /\ fn = NoCall
    /\ sh = NoRun

ShNext ==
    \/ DiscStart
    \/ DiscAnalyzeFileTypes
    \/ DiscDetectConfigurations
    \/ DiscAnalyzePatterns
    \/ DiscDetectFramework
    \/ DiscCheckDuplicates
    \/ DiscAnalyzeNamingConventions
    \/ DiscGenerateProjectIntelligence
    \/ DiscSearchFunctionality
    \/ DiscComplete
    \/ ValStart
    \/ ValValidateStructure
    \/ ValCheckCommonDuplicates
    \/ ValSearchFunctionality
    \/ ValComplete
    \/ InstStart
    \/ InstCreateDirectories
    \/ InstDownloadCoreScripts
    \/ InstDownloadDocumentation
    \/ InstCreateProjectConfig
    \/ InstCreateProjectContext
    \/ InstRunInitialDiscovery
    \/ InstDiscoveryExits
    \/ InstShowCompletion

\* The shell scripts run on a project tree, one run per behaviour.
ShSpec == ShInit /\ [][ShNext]_vars

-----------------------------------------------------------------------------
(* Properties: the duplicate detector                                      *)

\* The smallest element of a non-empty set of integers.
MinOf(I) == CHOOSE i \in I : \A j \in I : i <= j

\* The positions of the paths that contain the preferred substring.
HitsOf(locations, preferred) ==
    {i \in 1..Len(locations) : includes(locations[i], preferred)}

\* The lexicographically-first element of a non-empty set of strings.
LexFirst(S) == CHOOSE p \in S : \A q \in S : p = q \/ LexLess(p, q)

\* C1, as stated: the canonical path of a non-empty scan is the first path
\* that contains the preferred substring and, when no path contains it, the
\* lexicographically-first path of the scan.
C1_AsStated ==
    fn.op = "selectCanonicalLocation" =>
        LET hits == HitsOf(fn.locations, fn.preferred)
        IN fn.out = IF hits # {} THEN fn.locations[MinOf(hits)]
                    ELSE LexFirst(Range(fn.locations))

\* C1, amended: the canonical path of a non-empty scan is the first path that
\* contains the preferred substring and, when no path contains it, the first
\* path of the scan, in the order find printed it.
C1_FirstOfScan ==
    fn.op = "selectCanonicalLocation" =>
        LET hits == HitsOf(fn.locations, fn.preferred)
        IN fn.out = IF hits # {} THEN fn.locations[MinOf(hits)] ELSE fn.locations[1]

\* A scan of several paths, none containing the preferred substring, whose
\* first path is not its lexicographically-first one.
C1_Witness ==
    /\ fn.op = "selectCanonicalLocation"
    /\ Len(fn.locations) > 1
    /\ HitsOf(fn.locations, fn.preferred) = {}
    /\ fn.locations[1] # LexFirst(Range(fn.locations))
    /\ fn.out = fn.locations[1]

ThreeComponentDirs == {"./src/components", "./components", "./lib/components"}

\* C2: for every role found under more than one parent, one scanned path is
\* canonical and the forbidden locations of that role are exactly the other
\* scanned paths; no forbidden location belongs to no duplicated role; for
\* src/components, components and lib/components the canonical path is
\* src/components and the other two are forbidden.
C2_ViolationsAreTheOthers ==
    fn.op = "mapStructure" =>
        LET canonical == fn.out.canonicalLocations
            forbidden == Range(fn.out.forbiddenLocations)
            duplicated == {r \in Roles : Len(fn.found[r]) > 1}
        IN /\ DOMAIN canonical = duplicated
           /\ \A r \in duplicated :
                 /\ canonical[r] \in Range(fn.found[r])
                 /\ forbidden \cap Range(fn.found[r]) = Range(fn.found[r]) \ {canonical[r]}
           /\ forbidden \subseteq UNION {Range(fn.found[r]) : r \in duplicated}
           /\ Range(fn.found.components) = ThreeComponentDirs =>
                 /\ canonical.components = "./src/components"
                 /\ forbidden \cap ThreeComponentDirs =
                        {"./components", "./lib/components"}

\* The end-to-end scenario, with src/components not the first path find prints.
C2_Witness ==
    /\ fn.op = "mapStructure"
    /\ Range(fn.found.components) = ThreeComponentDirs
    /\ fn.found.components[1] # "./src/components"
    /\ fn.out.canonicalLocations.components = "./src/components"
    /\ Range(fn.out.forbiddenLocations) \cap ThreeComponentDirs =
           {"./components", "./lib/components"}

-----------------------------------------------------------------------------
(* Properties: the naming convention inferencer                            *)

ConventionPriority == <<"PascalCase", "camelCase", "kebab-case">>

\* The number of files of the list whose name, extension stripped, matches
\* the convention's pattern.
MatchCount(fileList, convention) ==
    Cardinality({i \in 1..Len(fileList) :
                    matchesPattern(extractFeatureName(fileList[i]), convention)})

\* The convention matched by most files, the earliest in priority on a tie.
MajorityConvention(fileList) ==
    LET count(k) == MatchCount(fileList, ConventionPriority[k])
        best == CHOOSE k \in 1..3 :
                    /\ \A j \in 1..3 : count(j) <= count(k)
                    /\ \A j \in 1..(k - 1) : count(j) < count(k)
    IN ConventionPriority[best]

\* C7, as stated: for a non-empty list the inferencer returns the convention
\* among PascalCase, camelCase and kebab-case that most file names match, the
\* earliest in that order on a tie.
C7_AsStated ==
    (fn.op = "detectNamingPattern" /\ Len(fn.fileList) > 0) =>
        fn.out = MajorityConvention(fn.fileList)

\* C8, as stated: a non-empty list of PascalCase names only yields
\* PascalCase, and a non-empty list of camelCase names only yields camelCase.
C8_AsStated ==
    (fn.op = "detectNamingPattern" /\ Len(fn.fileList) > 0) =>
        /\ MatchCount(fn.fileList, "PascalCase") = Len(fn.fileList) => fn.out = "PascalCase"
        /\ MatchCount(fn.fileList, "camelCase") = Len(fn.fileList) => fn.out = "camelCase"

\* The component files detectPatterns finds among the entries.
ComponentFilesOf(entries) == findFiles(entries, "*.tsx", "components")

\* C9, as stated: an empty list yields the default convention of the
\* category, PascalCase for components and camelCase for utilities, through
\* detectPatterns and through detectNamingPattern applied to the empty list.
C9_AsStated ==
    /\ (fn.op = "detectPatterns" /\ ComponentFilesOf(fn.entries) = {}) =>
          /\ fn.out.components = DefaultPatterns.components
          /\ fn.out.utilities = DefaultPatterns.utilities
    /\ (fn.op = "detectNamingPattern" /\ Len(fn.fileList) = 0) =>
          fn.out = DefaultPatterns.components

\* C9, amended: through detectPatterns an empty list of component files
\* yields the defaults, PascalCase for components and camelCase for
\* utilities; detectNamingPattern applied to the empty list returns camelCase
\* whatever the category.
C9_DefaultsOnEmpty ==
    /\ (fn.op = "detectPatterns" /\ ComponentFilesOf(fn.entries) = {}) =>
          /\ fn.out.components = "PascalCase"
          /\ fn.out.utilities = "camelCase"
    /\ (fn.op = "detectNamingPattern" /\ Len(fn.fileList) = 0) =>
          fn.out = "camelCase"

\* detectNamingPattern applied to the empty list.
C9_Witness ==
    /\ fn.op = "detectNamingPattern"
    /\ Len(fn.fileList) = 0
    /\ fn.out = "camelCase"

-----------------------------------------------------------------------------
(* Properties: validating a feature name                                   *)

\* The tree holds a component file of that name: <name>.tsx below a
\* directory named components, outside the dependency cache.
HasComponentFile(entries, name) ==
    \E p \in entries :
        /\ Basename(p) = name \o ".tsx"
        /\ \E d \in Ancestors(p) : Basename(d) = "components"
        /\ ~includes(p, "/node_modules/")

\* C11: validating a feature name reports a duplicate whenever the tree
\* holds a component file of that name, and reports no duplicate for any
\* feature name when the tree is empty.
C11_DuplicateIffCatalogued ==
    fn.op = "preventDuplication" =>
        /\ HasComponentFile(fn.entries, fn.feature) =>
              (fn.out.isDuplicate /\ fn.feature \in fn.out.alternatives)
        /\ fn.entries = {} => (~fn.out.isDuplicate /\ fn.out.alternatives = {})

\* LoginForm validated against a tree that holds src/components/LoginForm.tsx.
C11_Witness ==
    /\ fn.op = "preventDuplication"
    /\ fn.feature = "LoginForm"
    /\ "./src/components/LoginForm.tsx" \in fn.entries
    /\ fn.out.isDuplicate

-----------------------------------------------------------------------------
(* Properties: the directory scanner                                       *)

\* p lies inside a dependency cache or inside version-control metadata.
InsideIgnored(p) == includes(p, "/node_modules/") \/ includes(p, "/.git/")

\* The directories of the tree named `name` outside the ignored subtrees.
ExpectedScan(tree, name) == {p \in tree : Basename(p) = name /\ ~InsideIgnored(p)}

\* C10, as stated: a scan returns exactly the directories of the tree whose
\* final segment is the basename and that lie in no ignored subtree.
C10_AsStated ==
    fn.op \in {"findDirectories", "installCheckDuplicates", "discoveryCheckDuplicates"} =>
        Range(fn.out) = ExpectedScan(fn.tree, fn.name)

-----------------------------------------------------------------------------
(* Properties: canonical locations after analysis                          *)

\* The hard-coded default location of each role, and the file type under
\* which suggestLocation answers for the role.
DefaultLocation == [components |-> "src/components", docs |-> "docs", lib |-> "src/lib"]
FileTypeOf == [components |-> "component", docs |-> "documentation", lib |-> "utility"]

\* A relative path in the form find prints it.
AsFound(p) == IF startsWith(p, "./") THEN p ELSE "./" \o p

\* C3, as stated: after analysis the path the tool treats as canonical for a
\* role (suggestLocation, and the TDD configuration for components and lib) is
\* one of the directories the scan found for the role, and the hard-coded
\* default only when the scan found none.
C3_AsStated ==
    pi.live =>
        /\ \A r \in Roles :
              LET chosen == suggestLocation(pi, FileTypeOf[r])
              IN IF Len(scanned[r]) > 0
                 THEN AsFound(chosen) \in Range(scanned[r])
                 ELSE chosen = DefaultLocation[r]
        /\ config.componentLocation = suggestLocation(pi, "component")
        /\ config.utilityLocation = suggestLocation(pi, "utility")

\* The role whose canonical location answers for a file type, or no role.
RoleOf(fileType) ==
    CASE fileType = "component" -> "components"
      [] fileType = "utility" -> "lib"
      [] fileType = "documentation" -> "docs"
      [] OTHER -> "none"

\* The hard-coded default of each file type.
FallbackOf(fileType) ==
    CASE fileType = "component" -> "src/components"
      [] fileType = "utility" -> "src/lib"
      [] fileType = "test" -> "__tests__"
      [] fileType = "documentation" -> "docs"
      [] OTHER -> "src"

\* C18: suggestLocation returns the canonical location recorded for the
\* file type's role when the analysis recorded one, which is then one of the
\* directories scanned for the role; for test it returns the first test
\* directory found; without a recorded location it returns the hard-coded
\* default, src/components, src/lib, __tests__, docs, and src for any other
\* file type; it never returns the empty path.
C18_RecordedElseDefault ==
    fn.op = "suggestLocation" =>
        /\ fn.out # ""
        /\ IF fn.fileType = "test"
           THEN fn.out = IF Len(fn.found.test) > 0 THEN fn.found.test[1] ELSE "__tests__"
           ELSE IF RoleOf(fn.fileType) \in DOMAIN fn.canonical
           THEN /\ fn.out = fn.canonical[RoleOf(fn.fileType)]
                /\ fn.out \in Range(fn.found[RoleOf(fn.fileType)])
           ELSE fn.out = FallbackOf(fn.fileType)

\* A documentation location asked of a project with no canonical docs
\* directory recorded.
C18_Witness ==
    /\ fn.op = "suggestLocation"
    /\ fn.fileType = "documentation"
    /\ "docs" \notin DOMAIN fn.canonical
    /\ fn.out = "docs"

-----------------------------------------------------------------------------
(* Properties: the template emitter                                        *)

\* The step that starts a createFeature call; cur' is the FeatureSpec passed.
CallBegins == calls' = calls + 1

\* The call starts to write: createFailingTest is the next step.
CallWrites == pc' = "test"

\* Both files of the feature are on disk as a generation leaves them.
AlreadyGenerated(spec) ==
    LET testPath == FsPath(getTestPath(config, spec))
        implementationPath == FsPath(getImplementationPath(config, spec))
    IN /\ testPath \in DOMAIN files
       /\ implementationPath \in DOMAIN files
       /\ files[testPath] = generateTestContent(spec)
       /\ files[implementationPath] = generateSelfHealingImplementation(spec)

\* C4, as stated: generating a feature name and kind a second time fails
\* with AlreadyExists and writes nothing, so the files of the first
\* generation stay as they are.
C4_AsStated ==
    [][(CallBegins /\ AlreadyGenerated(cur')) =>
          (result' = "AlreadyExists" /\ ~CallWrites)]_vars

\* C5, as stated: a call whose kind is none of component, utility, api, hook
\* fails with UnsupportedKind and writes no test and no implementation file.
C5_AsStated ==
    [][(CallBegins /\ cur'.type \notin FeatureKinds) =>
          (result' = "UnsupportedKind" /\ ~CallWrites)]_vars

\* The paths whose file differs between the two states of a step.
Written == {p \in DOMAIN files' : p \notin DOMAIN files \/ files'[p] # files[p]}

\* The files on disk that the generators made for a feature, by stage.
GeneratedFor(spec, stages) ==
    {p \in DOMAIN files :
        /\ files[p].stage \in stages
        /\ files[p].name = spec.name
        /\ files[p].template = TemplateOf(spec.type)}

\* The test and implementation paths of the call in progress.
CurTestPath == FsPath(getTestPath(config, cur))
CurImplementationPath == FsPath(getImplementationPath(config, cur))

\* C20, the states of a call that passed both checks: once the call is past
\* its first write the test skeleton is on disk; the minimal implementation
\* is on disk only after it; while the call runs the implementation file does
\* not exist without the test file; when the call has ended there is exactly
\* one test file and one implementation file of the feature, the
\* implementation being the self-healing one.
C20_States ==
    /\ pc \in {"impl", "heal"} =>
          (CurTestPath \in DOMAIN files /\ files[CurTestPath] = generateTestContent(cur))
    /\ pc = "heal" =>
          (CurImplementationPath \in DOMAIN files
              /\ files[CurImplementationPath] = generateMinimalImplementation(cur))
    /\ pc # "idle" =>
          (CurImplementationPath \in DOMAIN files => CurTestPath \in DOMAIN files)
    /\ (pc = "idle" /\ result = "created") =>
          /\ Cardinality(GeneratedFor(cur, {"test"})) = 1
          /\ Cardinality(GeneratedFor(cur, {"minimal", "selfHealing"})) = 1
          /\ GeneratedFor(cur, {"minimal"}) = {}

\* C20, the steps: no file is ever removed; a step that changes a file is
\* the first write of a call, which writes the test skeleton only, or the
\* second, which writes the minimal implementation only, or the third, which
\* replaces the minimal implementation by the self-healing one at the same
\* path and ends the call; the three follow one another in that order.
C20_Steps ==
    /\ DOMAIN files \subseteq DOMAIN files'
    /\ pc' # pc =>
          <<pc, pc'>> \in {<<"idle", "test">>, <<"test", "impl">>, <<"impl", "heal">>,
                          <<"heal", "idle">>}
    /\ Written # {} =>
          \/ /\ pc = "test" /\ pc' = "impl"
             /\ Written = {CurTestPath}
             /\ files'[CurTestPath] = generateTestContent(cur)
          \/ /\ pc = "impl" /\ pc' = "heal"
             /\ Written = {CurImplementationPath}
             /\ files'[CurImplementationPath] = generateMinimalImplementation(cur)
          \/ /\ pc = "heal" /\ pc' = "idle" /\ result' = "created"
             /\ Written = {CurImplementationPath}
             /\ files[CurImplementationPath] = generateMinimalImplementation(cur)
             /\ files'[CurImplementationPath] = generateSelfHealingImplementation(cur)

\* C20: in a createFeature call that passes the duplicate and naming checks
\* the test skeleton is written first, then the minimal implementation, then
\* the self-healing implementation in its place; no implementation file
\* exists before the test file, and the call leaves exactly one test file and
\* one implementation file of the feature.
C20_TestFirstThenReplace == []C20_States /\ [][C20_Steps]_vars

\* A call that has ended after its three writes.
C20_Witness ==
    /\ pc = "idle"
    /\ result = "created"
    /\ CurTestPath \in DOMAIN files
    /\ files[CurTestPath] = generateTestContent(cur)
    /\ CurImplementationPath \in DOMAIN files
    /\ files[CurImplementationPath] = generateSelfHealingImplementation(cur)

\* The features on disk now that the proposed name duplicates: those the
\* catalogue of the tree as it is holds under a similar name.
SimilarOnDisk(name) ==
    findSimilarFeatures([existingFeatures |-> catalogFeatures(Entries)], name)

\* C6, as stated: no createFeature call writes a file for a feature whose
\* name duplicates a feature on disk at the time of the call, features
\* written by earlier calls on the same instance included.
C6_AsStated ==
    [][(CallBegins /\ SimilarOnDisk(cur'.name) # {}) => ~CallWrites]_vars

-----------------------------------------------------------------------------
(* Properties: the discovery run                                           *)

\* A script run from the command line has ended, and was not a request for
\* the usage text.
Ended(script) ==
    sh.script = script /\ sh.at = "exit" /\ sh.ran # <<"show_help">>

\* The report sections of the discovery run, in the order main calls them.
ReportSections(args) ==
    << "analyze_file_types", "detect_configurations", "analyze_patterns",
       "detect_framework", "check_duplicates", "analyze_naming_conventions",
       "generate_project_intelligence" >>
    \o (IF Len(args) > 0 THEN <<"search_functionality">> ELSE <<>>)
    \o <<"complete">>

\* C12, as stated: a discovery run, whatever the project tree holds, has run
\* every report section in order (the search when a term was given) when it
\* ends, and ends with exit status 0.
C12_AsStated ==
    Ended("discovery") => (sh.status = 0 /\ sh.ran = ReportSections(sh.args))

\* The project context file.
ContextFile == "./.project_context.md"

\* C15, as stated: when a discovery run has ended successfully the project
\* context file exists and holds what that run wrote from its scan; nothing an
\* earlier run wrote is left in it.
C15_AsStated ==
    (Ended("discovery") /\ sh.status = 0) =>
        (ContextFile \in DOMAIN files /\ files[ContextFile].stage = "discovery")

-----------------------------------------------------------------------------
(* Properties: validate-before-create                                      *)

\* The files of the tree whose name holds the feature name, whatever the
\* case, outside the dependency cache and the version-control metadata.
DuplicatesOf(name) ==
    {p \in DOMAIN files :
        /\ includes(toLowerCase(Basename(p)), toLowerCase(name))
        /\ ~includes(p, "/node_modules/")
        /\ ~includes(p, "/.git/")}

\* C13, as stated: validate <feature_name> ends with status 0 exactly when the
\* tree holds no duplicate of the feature name, and otherwise ends with status
\* 1 after printing the duplicates.
C13_AsStated ==
    (Ended("validate") /\ Len(sh.args) = 1) =>
        IF DuplicatesOf(sh.args[1]) = {}
        THEN sh.status = 0
        ELSE sh.status = 1 /\ sh.found = DuplicatesOf(sh.args[1])

\* C14, as stated: with --force among the arguments the duplicate check is
\* not made and the run ends with status 0, whatever the tree and the name.
C14_AsStated ==
    (Ended("validate") /\ "--force" \in Range(sh.args)) =>
        /\ sh.status = 0
        /\ "check_common_duplicates" \notin Range(sh.ran)
        /\ "search_functionality" \notin Range(sh.ran)

-----------------------------------------------------------------------------
(* Properties: the installer                                               *)

\* The steps of an installation, in the order main calls them.
InstallSteps ==
    << "create_directories", "download_core_scripts", "download_documentation",
       "create_project_config", "create_project_context", "run_initial_discovery",
       "show_completion" >>

\* The steps of InstallSteps other than `step`.
StepsWithout(step) == SelectSeq(InstallSteps, LAMBDA s : s # step)

\* C16, as stated: an installation started with --no-discovery never enters
\* the initial discovery and never starts the discovery script, and when it
\* has ended successfully every other step has run.
C16_AsStated ==
    (sh.script = "install" /\ "--no-discovery" \in Range(sh.args)) =>
        /\ "run_initial_discovery" \notin Range(sh.ran)
        /\ sh.sub.script = "none"
        /\ (sh.at = "exit" /\ sh.status = 0) => sh.ran = StepsWithout("run_initial_discovery")

\* The files below docs/ that a download wrote.
DownloadedDocs ==
    {p \in DOMAIN files : startsWith(p, "./docs/") /\ files[p].stage = "download"}

\* C17, as stated: an installation started with --minimal never enters the
\* documentation download and writes no file below docs/.
C17_AsStated ==
    (sh.script = "install" /\ "--minimal" \in Range(sh.args)) =>
        /\ "download_documentation" \notin Range(sh.ran)
        /\ DownloadedDocs = {}

-----------------------------------------------------------------------------
(* Properties: createFeature and its checks                                *)

\* C21: when preventDuplication reports a duplicate or validateNaming reports
\* the name invalid, createFeature returns with the filesystem as it found
\* it: no directory created, no file created or modified.
C21_FailedCheckLeavesTree ==
    (fn.op = "createFeature" /\ (fn.isDuplicate \/ ~fn.isValid)) =>
        /\ fn.out.result \in {"duplicate", "naming"}
        /\ fn.out.dirs = fn.dirs
        /\ fn.out.files = fn.files

\* A call on a project that holds a similar feature, ended by the duplicate
\* check.
C21_Witness ==
    /\ fn.op = "createFeature"
    /\ fn.isDuplicate
    /\ fn.files # << >>
    /\ fn.out.result = "duplicate"

\* The key of NamingPatterns that holds the pattern for a kind of feature.
PatternKeyOf(type) ==
    CASE type = "component" -> "components"
      [] type = "utility" -> "utilities"
      [] type = "api" -> "apiRoutes"
      [] OTHER -> type

\* C22: a name that does not match the naming pattern the project map records
\* for the kind of file makes createFeature report the naming issues and
\* write no file.
C22_AsStated ==
    (/\ fn.op = "createFeature"
     /\ fn.spec.type \in FeatureKinds
     /\ ~fn.isDuplicate
     /\ PatternKeyOf(fn.spec.type) \in DOMAIN fn.patterns
     /\ ~matchesPattern(fn.spec.name, fn.patterns[PatternKeyOf(fn.spec.type)])) =>
        /\ fn.out.result = "naming"
        /\ fn.out.files = fn.files

-----------------------------------------------------------------------------
(* Properties: the conflicts of a constructed instance                     *)

\* C23: a constructed instance lists one duplicate_directory conflict for
\* every path of structure.duplicateStructures and no other conflict, so the
\* report's "Conflicts Found" is the number of duplicate directories.
C23_AsStated ==
    pi.live =>
        /\ pi.conflicts =
              [i \in 1..Len(pi.structure.duplicateStructures) |->
                  [type |-> "duplicate_directory",
                   location |-> pi.structure.duplicateStructures[i],
                   recommendation |-> "Consolidate with canonical location"]]
        /\ generateReport(pi).conflictsFound = Len(pi.structure.duplicateStructures)

-----------------------------------------------------------------------------
(* Properties: the import of a generated test                              *)

\* The file a relative import names when it is written in a file of the
\* directory dir: each leading "../" drops the last segment of dir.
RECURSIVE ResolveFrom(_, _)
ResolveFrom(dir, rel) ==
    IF startsWith(rel, "../") /\ dir # ""
    THEN ResolveFrom(IF LastSlash(dir) = 0 THEN "" ELSE Dirname(dir),
                     SubSeq(rel, 4, Len(rel)))
    ELSE IF dir = "" THEN rel
    ELSE dir \o "/" \o rel

\* The last "." of s at or before position i, 0 when there is none.
RECURSIVE LastDotFrom(_, _)
LastDotFrom(s, i) ==
    IF i = 0 THEN 0
    ELSE IF CharAt(s, i) = "." THEN i
    ELSE LastDotFrom(s, i - 1)

\* A path without the extension of its file.
WithoutExtension(p) ==
    IF LastDotFrom(p, Len(p)) > LastSlash(p) + 1
    THEN SubSeq(p, 1, LastDotFrom(p, Len(p)) - 1)
    ELSE p

\* C24: for every feature kind and name, the import path of the generated
\* test, resolved against the directory of the test file, is the
\* implementation file without its extension.
C24_AsStated ==
    (fn.op = "generateTestContent" /\ fn.spec.type \in FeatureKinds) =>
        ResolveFrom(Dirname(fn.testPath), fn.out.importPath)
            = WithoutExtension(fn.implementationPath)

-----------------------------------------------------------------------------
(* Properties: a created feature and the next run's catalogue               *)

\* The features createFeature has written to the end: the name and the kind
\* of every finished implementation on disk.
CreatedOnDisk ==
    {[name |-> files[p].name, type |-> files[p].template] :
        p \in {q \in DOMAIN files : /\ files[q].stage = "selfHealing"
                                    /\ files[q].template \in FeatureKinds}}

\* The step that constructs an instance; pi' is its project map.
Constructs == runs' = runs + 1

\* The instance was constructed on the tree as it is now.
CatalogueCurrent == pi.live /\ pi.existingFeatures = catalogFeatures(Entries)

\* C25: for every kind and name, an instance constructed after createFeature
\* wrote a feature catalogues it, so preventDuplication reports the name as a
\* duplicate and a second creation of the feature in that run writes nothing.
C25_AsStated ==
    [][/\ Constructs =>
            \A spec \in CreatedOnDisk : preventDuplication(pi', spec.name).isDuplicate
       /\ (CallBegins /\ CatalogueCurrent /\ cur' \in CreatedOnDisk) => ~CallWrites]_vars

-----------------------------------------------------------------------------
(* Properties: the framework detectors                                     *)

\* C26: for every package.json over next, react and vue the three framework
\* detectors report the same framework, and a project that lists both next
\* and react is reported as nextjs by all three.
C26_AsStated ==
    fn.op = "detectFramework" =>
        /\ fn.extractConventions = fn.detect_project_type
        /\ fn.detect_project_type = fn.generate_project_intelligence
        /\ {"next", "react"} \subseteq fn.packageJson.dependencies =>
              /\ fn.extractConventions = "nextjs"
              /\ fn.detect_project_type = "nextjs"
              /\ fn.generate_project_intelligence = "nextjs"

-----------------------------------------------------------------------------
(* Properties: the suggested name                                          *)

\* C27: for every name validateNaming rejects against PascalCase, camelCase
\* or kebab-case, the name it suggests matches that pattern, and suggesting
\* again from the suggested name returns it unchanged.
C27_AsStated ==
    (/\ fn.op = "validateNaming"
     /\ fn.pattern \in {"PascalCase", "camelCase", "kebab-case"}
     /\ Len(fn.out.consider) = 1) =>
        /\ matchesPattern(fn.out.consider[1], fn.pattern)
        /\ fn.again[1] = fn.out.consider[1]

=============================================================================
